---- MODULE Spec2Model ----
(***************************************************************************)
(* psmqtt, src/task.py: the MQTT session wrapper (MqttClient), its broker  *)
(* callbacks and the task dispatcher (run_task).                           *)
(*                                                                         *)
(* Python strings are TLA+ strings (Len, \o and SubSeq apply to them).     *)
(* A resolved value is a record [kind, n, s, items, keys]:                 *)
(*   kind = "int"   the integer n                                          *)
(*   kind = "bool"  True when n = 1, False when n = 0                      *)
(*   kind = "str"   the string s                                           *)
(*   kind = "enum"  an IntEnum member named s with value n                 *)
(*   kind = "set"   an object json cannot encode; s is its str() form      *)
(*   kind = "list"  the list items                                         *)
(*   kind = "dict"  the dict with keys[i] mapped to items[i], in insertion *)
(*                  order                                                  *)
(***************************************************************************)
EXTENDS Integers, Sequences, FiniteSets, TLC

VARIABLES
    theClient,    \* the module global: 0 is None, else the number of the
                  \* construction attempt that registered itself
    attempts,     \* how many times MqttClient(...) has been called
    lastCtor,     \* how the last construction attempt ended
    session,      \* the fields of the registered MqttClient
    link,         \* the broker connection as the transport sees it
    connectLog,   \* the last mqttc.connect() started by MqttClient.connect
    inbox,        \* broker events waiting for the event-processing context
    sleepLeft,    \* time units left of on_disconnect's time.sleep
    last,         \* the last callback the event context ran, and what
                  \* it did
    faulty        \* the environment may refuse hand-offs and return
                  \* values json cannot encode

vars == <<theClient, attempts, lastCtor, session, link, connectLog, inbox,
          sleepLeft, last, faulty>>

-----------------------------------------------------------------------------
(* Bounds of the model *)

MaxLen    == 2      \* longest list / largest dict the resolver returns
MaxQueue  == 2      \* broker events that can wait in the inbox
MaxCtor   == 2      \* construction attempts

(* Program constants *)

SecurePort    == 8883
CooldownUnits == 10

-----------------------------------------------------------------------------
(* Python string primitives *)

StartsWith(s, p) == Len(p) <= Len(s) /\ SubSeq(s, 1, Len(p)) = p

\* s[n:]
From(s, n) == SubSeq(s, n + 1, Len(s))

\* s.find(c) + 1 for a one-character c: 0 when c does not occur
Find(s, c) ==
    IF \E i \in 1..Len(s) : SubSeq(s, i, i) = c
    THEN CHOOSE i \in 1..Len(s) :
            /\ SubSeq(s, i, i) = c
            /\ \A j \in 1..(i - 1) : SubSeq(s, j, j) # c
    ELSE 0

Digits == <<"0", "1", "2", "3", "4", "5", "6", "7", "8", "9">>

RECURSIVE NatStr(_)
NatStr(n) == IF n < 10 THEN Digits[n + 1]
             ELSE NatStr(n \div 10) \o Digits[(n % 10) + 1]

\* str(n) of an int
IntStr(n) == IF n < 0 THEN "-" \o NatStr(-n) ELSE NatStr(n)

-----------------------------------------------------------------------------
(* Resolved values *)

Val(k, n, s, items, keys) ==
    [kind |-> k, n |-> n, s |-> s, items |-> items, keys |-> keys]

IntV(n)       == Val("int", n, "", <<>>, <<>>)
BoolV(b)      == Val("bool", IF b THEN 1 ELSE 0, "", <<>>, <<>>)
StrV(s)       == Val("str", 0, s, <<>>, <<>>)
EnumV(s, n)   == Val("enum", n, s, <<>>, <<>>)
SetV(s)       == Val("set", 0, s, <<>>, <<>>)
ListV(items)  == Val("list", 0, "", items, <<>>)
DictV(ks, vs) == Val("dict", 0, "", vs, ks)

IsList(v) == v.kind = "list"
IsDict(v) == v.kind = "dict"

\* json.dumps raises TypeError on an object it has no encoding for
RECURSIVE JsonEncodable(_)
JsonEncodable(v) ==
    /\ v.kind # "set"
    /\ \A i \in 1..Len(v.items) : JsonEncodable(v.items[i])

\* json.dumps(v), default separators (", " and ": ")
RECURSIVE JsonDumps(_)
RECURSIVE JsonJoin(_, _, _)
JsonJoin(v, i, acc) ==
    IF i > Len(v.items) THEN acc
    ELSE JsonJoin(v, i + 1,
            acc \o (IF i > 1 THEN ", " ELSE "")
                \o (IF IsDict(v) THEN "\"" \o v.keys[i] \o "\": " ELSE "")
                \o JsonDumps(v.items[i]))
JsonDumps(v) ==
    CASE v.kind = "dict" -> "{" \o JsonJoin(v, 1, "") \o "}"
      [] v.kind = "list" -> "[" \o JsonJoin(v, 1, "") \o "]"
      [] v.kind = "bool" -> IF v.n = 1 THEN "true" ELSE "false"
      [] v.kind = "str"  -> "\"" \o v.s \o "\""
      [] OTHER           -> IntStr(v.n)       \* int, and IntEnum as its int

\* str(v) of a value that is neither a dict nor a list
PyStr(v) ==
    CASE v.kind = "int"  -> IntStr(v.n)
      [] v.kind = "bool" -> IF v.n = 1 THEN "True" ELSE "False"
      [] OTHER           -> v.s

\* whether payload_as_string(v) raises
RECURSIVE PayloadRaises(_)
PayloadRaises(v) ==
    IF IsDict(v) THEN ~JsonEncodable(v)
    ELSE IF v.kind = "enum" THEN FALSE
    ELSE IF ~IsList(v) THEN FALSE
    ELSE IF Len(v.items) = 1 THEN PayloadRaises(v.items[1])
    ELSE ~JsonEncodable(v)

\* payload_as_string without the single-element rule
payload_as_string_NoFlatten(v) ==
    IF IsDict(v) THEN JsonDumps(v)
    ELSE IF v.kind = "enum" THEN IntStr(v.n)
    ELSE IF ~IsList(v) THEN PyStr(v)
    ELSE JsonDumps(v)

\* payload_as_string testing for a list before testing for an IntEnum
RECURSIVE payload_as_string_StrFirst(_)
payload_as_string_StrFirst(v) ==
    IF IsDict(v) THEN JsonDumps(v)
    ELSE IF ~IsList(v) THEN PyStr(v)
    ELSE IF v.kind = "enum" THEN IntStr(v.n)
    ELSE IF Len(v.items) = 1 THEN payload_as_string_StrFirst(v.items[1])
    ELSE JsonDumps(v)

RECURSIVE payload_as_string(_)
payload_as_string(v) ==
    IF IsDict(v) THEN JsonDumps(v)
    ELSE IF v.kind = "enum" THEN IntStr(v.n)
    ELSE IF ~IsList(v) THEN PyStr(v)
    ELSE IF Len(v.items) = 1 THEN payload_as_string(v.items[1])
    ELSE JsonDumps(v)

-----------------------------------------------------------------------------
(* Topic addressing (topic.py) *)

Wildcard == "*"

\* Topic(raw) raises on an empty raw string
TopicRaises(raw) == raw = ""

is_multitopic(t) == Find(t, Wildcard) > 0

get_subtopic(t, key) ==
    SubSeq(t, 1, Find(t, Wildcard) - 1) \o key \o From(t, Find(t, Wildcard))

get_topic(t) == t

get_error_topic(t) == "error/" \o t

-----------------------------------------------------------------------------
(* The inputs the model draws from *)

\* (topic_prefix, request_topic, qos, retain) given to MqttClient(...)
Configs ==
    { [topic_prefix |-> "psmqtt/", request_topic |-> "req/", qos |-> 0, retain |-> FALSE],
      [topic_prefix |-> "psmqtt/", request_topic |-> "",     qos |-> 1, retain |-> TRUE],
      [topic_prefix |-> "",        request_topic |-> "req/", qos |-> 2, retain |-> TRUE] }

\* topics of inbound messages
InboundTopics ==
    { "req/cpu/percent", "req/psmqtt/disk/*/usage",
      "req/psmqtt/psmqtt/cpu/percent", "other/cpu/percent", "req/" }

Ports == {1883, SecurePort}

\* result_code of a CONNACK: 0 is success, 5 is "not authorised"
ResultCodes == {0, 5}

Scalars == { IntV(42), BoolV(TRUE), StrV("ok"), EnumV("RUN", 2) }

\* elements of the lists the resolver returns
Elems == { IntV(10), ListV(<<ListV(<<BoolV(TRUE)>>)>>) }

\* lists whose elements are of the other kinds
MixedLists ==
    { ListV(<<DictV(<<"k">>, <<ListV(<<IntV(1)>>)>>), ListV(<<>>)>>),
      ListV(<<ListV(<<EnumV("RUN", 2), StrV("ok")>>), ListV(<<StrV("ok")>>)>>) }

Keys == { "sda", "sdb" }

Lists ==
    { ListV(items) : items \in UNION { [1..n -> Elems] : n \in 0..MaxLen } }
    \cup MixedLists

KeySeqs ==
    { ks \in UNION { [1..n -> Keys] : n \in 0..MaxLen } :
        \A i, j \in 1..Len(ks) : i # j => ks[i] # ks[j] }

\* the value the resolver reports under a key
KeyValue(k) == IF k = "sda" THEN IntV(10) ELSE IntV(20)

Dicts == { DictV(ks, [i \in 1..Len(ks) |-> KeyValue(ks[i])]) : ks \in KeySeqs }

\* str(ex) of the failures get_value raises
ResolverErrors == { "disk not found" }

\* what get_value(task) does: raise, or return a value
Raise(msg)  == [raises |-> TRUE, msg |-> msg, value |-> IntV(0)]
Return(v)   == [raises |-> FALSE, msg |-> "", value |-> v]

\* values json cannot encode, returned only by a faulty environment
Unencodable == { ListV(<<IntV(10), ListV(<<SetV("{1}"), SetV("{2}")>>)>>) }

\* one list of each length, for the environment that also draws faults
ListOfLen(n) ==
    ListV([i \in 1..n |-> IF i % 2 = 1 THEN IntV(10) ELSE ListV(<<IntV(20)>>)])

Outcomes(f) ==
    { Raise(m) : m \in ResolverErrors }
    \cup { Return(v) : v \in Scalars \cup Dicts }
    \cup (IF f THEN { Return(v) : v \in Unencodable }
                     \cup { Return(ListOfLen(n)) : n \in 0..MaxLen }
                ELSE { Return(v) : v \in Lists })

\* which hand-offs the transport refuses: the data-th data publish of the
\* dispatch (0: none), and the error publish
NoFault == [data |-> 0, error |-> FALSE]
Faults(f, outcome) ==
    IF f THEN { flt \in [data : 0..MaxLen, error : BOOLEAN] :
                    flt.data <= (IF outcome.raises THEN 0
                                 ELSE IF IsList(outcome.value) \/ IsDict(outcome.value)
                                      THEN Len(outcome.value.items) ELSE 1) }
    ELSE { NoFault }

-----------------------------------------------------------------------------
(* run_task *)

NoExc        == [raised |-> FALSE, str |-> ""]
Exc(msg)     == [raised |-> TRUE, str |-> msg]

TypeErrorStr == "Object of type set is not JSON serializable"
TransportErrorStr == "Invalid topic."

SeveralValuesStr(task) ==
    "Result of task '" \o task
        \o "' has several values but topic doesn't contain '*' char"

\* mqttc_publish with the settings of the last will
mqttc_publish_AsWill(self, topic, payload) ==
    [topic |-> topic, payload |-> payload, qos |-> 0, retain |-> FALSE]

\* the PublishCommand of self.mqttc.publish(topic, payload, qos, retain)
mqttc_publish(self, topic, payload) ==
    [topic |-> topic, payload |-> payload, qos |-> self.qos, retain |-> self.retain]

\* FanOut with the dict loop numbering its subtopics as the list loop does
FanOut_DictByIndex(topic, payload) ==
    IF IsList(payload) \/ IsDict(payload) THEN
        [i \in 1..Len(payload.items) |->
            [topic |-> get_subtopic(topic, IntStr(i - 1)), v |-> payload.items[i]]]
    ELSE
        <<[topic |-> get_topic(topic), v |-> payload]>>

\* FanOut with a single value on a wildcard topic published as element 0
FanOut_ScalarAsElement(topic, payload) ==
    IF IsList(payload) THEN
        [i \in 1..Len(payload.items) |->
            [topic |-> get_subtopic(topic, IntStr(i - 1)), v |-> payload.items[i]]]
    ELSE IF IsDict(payload) THEN
        [i \in 1..Len(payload.items) |->
            [topic |-> get_subtopic(topic, payload.keys[i]), v |-> payload.items[i]]]
    ELSE
        <<[topic |-> IF is_multitopic(topic) THEN get_subtopic(topic, "0")
                     ELSE get_topic(topic),
           v |-> payload]>>

\* FanOut with a single-element list published as the single value it
\* serializes to
FanOut_SingleToBase(topic, payload) ==
    IF IsList(payload) /\ Len(payload.items) # 1 THEN
        [i \in 1..Len(payload.items) |->
            [topic |-> get_subtopic(topic, IntStr(i - 1)), v |-> payload.items[i]]]
    ELSE IF IsDict(payload) THEN
        [i \in 1..Len(payload.items) |->
            [topic |-> get_subtopic(topic, payload.keys[i]), v |-> payload.items[i]]]
    ELSE
        <<[topic |-> get_topic(topic), v |-> payload]>>

\* the (topic, value) pairs of the fan-out, in the order the loops visit them
FanOut(topic, payload) ==
    IF IsList(payload) THEN
        [i \in 1..Len(payload.items) |->
            [topic |-> get_subtopic(topic, IntStr(i - 1)), v |-> payload.items[i]]]
    ELSE IF IsDict(payload) THEN
        [i \in 1..Len(payload.items) |->
            [topic |-> get_subtopic(topic, payload.keys[i]), v |-> payload.items[i]]]
    ELSE
        <<[topic |-> get_topic(topic), v |-> payload]>>

\* Emit going on with the next element after one that raises
RECURSIVE Emit_SkipsFailed(_, _, _, _, _)
Emit_SkipsFailed(self, steps, i, fault, pubs) ==
    IF i > Len(steps) THEN [pubs |-> pubs, exc |-> NoExc]
    ELSE IF PayloadRaises(steps[i].v) \/ fault.data = i THEN
        LET rest == Emit_SkipsFailed(self, steps, i + 1, fault, pubs)
        IN  [pubs |-> rest.pubs,
             exc  |-> Exc(IF fault.data = i /\ ~PayloadRaises(steps[i].v)
                          THEN TransportErrorStr ELSE TypeErrorStr)]
    ELSE Emit_SkipsFailed(self, steps, i + 1, fault,
              Append(pubs, mqttc_publish(self, steps[i].topic,
                                         payload_as_string(steps[i].v))))

\* the publishes of steps[i..], until one raises: serializing steps[i].v, or
\* the transport refusing the hand-off
RECURSIVE Emit(_, _, _, _, _)
Emit(self, steps, i, fault, pubs) ==
    IF i > Len(steps) THEN [pubs |-> pubs, exc |-> NoExc]
    ELSE IF PayloadRaises(steps[i].v) THEN [pubs |-> pubs, exc |-> Exc(TypeErrorStr)]
    ELSE IF fault.data = i THEN [pubs |-> pubs, exc |-> Exc(TransportErrorStr)]
    ELSE Emit(self, steps, i + 1, fault,
              Append(pubs, mqttc_publish(self, steps[i].topic,
                                         payload_as_string(steps[i].v))))

\* TryBody without the several-values check: the whole value goes to the
\* base topic
TryBody_NoCheck(self, task, topic, outcome, fault) ==
    IF outcome.raises THEN [pubs |-> <<>>, exc |-> Exc(outcome.msg)]
    ELSE IF (IsList(outcome.value) \/ IsDict(outcome.value)) /\ ~is_multitopic(topic)
        THEN Emit(self, <<[topic |-> get_topic(topic), v |-> outcome.value]>>,
                  1, fault, <<>>)
    ELSE Emit(self, FanOut(topic, outcome.value), 1, fault, <<>>)

\* the body of the try statement
TryBody(self, task, topic, outcome, fault) ==
    IF outcome.raises THEN [pubs |-> <<>>, exc |-> Exc(outcome.msg)]
    ELSE IF (IsList(outcome.value) \/ IsDict(outcome.value)) /\ ~is_multitopic(topic)
        THEN [pubs |-> <<>>, exc |-> Exc(SeveralValuesStr(task))]
    ELSE Emit(self, FanOut(topic, outcome.value), 1, fault, <<>>)

\* the except clause only logging the failure
Handler_LogOnly(self, topic, got, fault) ==
    [pubs |-> got.pubs, escaped |-> FALSE]

\* the except clause
Handler(self, topic, got, fault) ==
    IF ~got.exc.raised THEN [pubs |-> got.pubs, escaped |-> FALSE]
    ELSE IF fault.error THEN [pubs |-> got.pubs, escaped |-> TRUE]
    ELSE [pubs |-> Append(got.pubs,
                          mqttc_publish(self, get_error_topic(topic), got.exc.str)),
          escaped |-> FALSE]

StripPrefix(self, task) ==
    IF StartsWith(task, self.topic_prefix)
    THEN From(task, Len(self.topic_prefix)) ELSE task

\* the output topic always built by prepending the prefix
OutputTopic_AlwaysPrefixed(self, topic_name) ==
    self.topic_prefix \o topic_name

OutputTopic(self, topic_name) ==
    IF StartsWith(topic_name, self.topic_prefix)
    THEN topic_name ELSE self.topic_prefix \o topic_name

NoOutcome == Return(IntV(0))

\* run_task(task, topic_name) with get_value(task) doing `outcome`
run_task(self, task0, topic_name, outcome, fault) ==
    LET task  == StripPrefix(self, task0)
        topic == OutputTopic(self, topic_name)
    IN  IF TopicRaises(topic)
        THEN [task |-> task, topic |-> topic, resolved |-> FALSE,
              outcome |-> NoOutcome, pubs |-> <<>>, escaped |-> TRUE]
        ELSE LET got == TryBody(self, task, topic, outcome, fault)
                 end == Handler(self, topic, got, fault)
             IN  [task |-> task, topic |-> topic, resolved |-> TRUE,
                  outcome |-> outcome, pubs |-> end.pubs,
                  escaped |-> end.escaped]

\* on_message without the test of the request prefix
on_message_NoPrefixTest(self, topic, outcome, fault) ==
    [inbound |-> topic, matched |-> TRUE]
        @@ run_task(self, From(topic, Len(self.request_topic)),
                    From(topic, Len(self.request_topic)), outcome, fault)

\* on_message(msg) with msg.topic = topic
on_message(self, topic, outcome, fault) ==
    IF StartsWith(topic, self.request_topic)
    THEN [inbound |-> topic, matched |-> TRUE]
            @@ run_task(self, From(topic, Len(self.request_topic)),
                        From(topic, Len(self.request_topic)), outcome, fault)
    ELSE [inbound |-> topic, matched |-> FALSE,
          task |-> "", topic |-> "", resolved |-> FALSE, outcome |-> NoOutcome,
          pubs |-> <<>>, escaped |-> FALSE]

-----------------------------------------------------------------------------
(* MqttClient *)

NoSession ==
    [connected |-> FALSE, topic_prefix |-> "", request_topic |-> "",
     qos |-> 0, retain |-> FALSE]

\* MqttClient(...) without the assertion on the global
MqttClient_NoAssert(client, self, n, cfg) ==
    [theClient |-> n, result |-> "constructed",
     session   |-> [connected     |-> FALSE,
                    topic_prefix  |-> cfg.topic_prefix,
                    request_topic |-> cfg.request_topic,
                    qos           |-> cfg.qos,
                    retain        |-> cfg.retain]]

\* MqttClient(...) as the n-th construction attempt, with the global holding
\* `client` and the registered instance's fields being `self`
MqttClient(client, self, n, cfg) ==
    IF client = 0
    THEN [theClient |-> n, result |-> "constructed",
          session   |-> [connected     |-> FALSE,
                         topic_prefix  |-> cfg.topic_prefix,
                         request_topic |-> cfg.request_topic,
                         qos           |-> cfg.qos,
                         retain        |-> cfg.retain]]
    ELSE [theClient |-> client, result |-> "AssertionError", session |-> self]

\* on_connect subscribing whatever the request topic is
on_connect_AlwaysSubscribes(self, result_code) ==
    [subs    |-> <<[topic |-> self.request_topic \o "#", qos |-> self.qos]>>,
     session |-> [self EXCEPT !.connected = TRUE]]

\* the subscriptions and the fields after on_connect(result_code)
on_connect(self, result_code) ==
    [subs    |-> IF self.request_topic # ""
                 THEN <<[topic |-> self.request_topic \o "#", qos |-> self.qos]>>
                 ELSE <<>>,
     session |-> [self EXCEPT !.connected = TRUE]]

\* on_disconnect returning at once
on_disconnect_NoSleep(self) ==
    [session |-> self, sleep |-> 0]

\* the fields after on_disconnect(rc), and how long it blocks
on_disconnect(self) ==
    [session |-> self, sleep |-> CooldownUnits]

\* the transport after connect(mqtt_port), and the port mqttc.connect is given
connect(tls, mqtt_port) ==
    [tls |-> tls \/ mqtt_port = SecurePort, port |-> mqtt_port]

-----------------------------------------------------------------------------
(* The state machine *)

ConnAck(r) == [type |-> "connack", rc |-> r, topic |-> ""]
Disconnect == [type |-> "disconnect", rc |-> 0, topic |-> ""]
Message(t) == [type |-> "message", rc |-> 0, topic |-> t]

\* what a callback other than on_message leaves of the dispatch fields
NoDispatch ==
    [inbound |-> "", matched |-> FALSE, task |-> "",
     topic |-> "", resolved |-> FALSE, outcome |-> NoOutcome, pubs |-> <<>>,
     escaped |-> FALSE]

\* the record of a callback: `was` is self.connected when it was entered
Ran(type, rc, was, subs) ==
    [type |-> type, rc |-> rc, was |-> was, subs |-> subs] @@ NoDispatch

NoConnect == [port |-> 0, tls |-> FALSE, raised |-> FALSE]

InitWith(f) ==
    /\ theClient = 0
    /\ attempts = 0
    /\ lastCtor = "none"
    /\ session = NoSession
    /\ link = "down"
    /\ connectLog = NoConnect
    /\ inbox = <<>>
    /\ sleepLeft = 0
    /\ last = Ran("none", 0, FALSE, <<>>)
    /\ faulty = f

Init == InitWith(FALSE)

\* the program calls MqttClient(...)
Construct(cfg) ==
    /\ attempts < MaxCtor
    /\ LET made == MqttClient(theClient, session, attempts + 1, cfg)
       IN  /\ theClient' = made.theClient
           /\ session' = made.session
           /\ lastCtor' = made.result
    /\ attempts' = attempts + 1
    /\ UNCHANGED <<link, connectLog, inbox, sleepLeft, last, faulty>>

\* the caller calls connect(broker, port, username, password); mqttc.connect
\* raises when the broker cannot be reached
Connect(port, reachable) ==
    /\ theClient # 0
    /\ LET c == connect(connectLog.tls, port)
       IN  connectLog' = [port |-> c.port, tls |-> c.tls, raised |-> ~reachable]
    /\ link' = IF reachable THEN "connecting" ELSE "down"
    /\ UNCHANGED <<theClient, attempts, lastCtor, session, inbox, sleepLeft,
                   last, faulty>>

\* The event context runs the callback of an event as soon as it is free, so
\* events wait behind one another only while it is blocked in a callback.
Room == Len(inbox) < (IF sleepLeft > 0 THEN MaxQueue ELSE 1)

\* the broker answers the CONNECT
BrokerAck(rc) ==
    /\ link = "connecting"
    /\ Room
    /\ inbox' = Append(inbox, ConnAck(rc))
    /\ link' = IF rc = 0 THEN "up" ELSE "down"
    /\ UNCHANGED <<theClient, attempts, lastCtor, session, connectLog, sleepLeft,
                   last, faulty>>

\* the connection drops
LinkDrop ==
    /\ link = "up"
    /\ Room
    /\ inbox' = Append(inbox, Disconnect)
    /\ link' = "down"
    /\ UNCHANGED <<theClient, attempts, lastCtor, session, connectLog, sleepLeft,
                   last, faulty>>

\* a message arrives from the broker
MessageArrives(topic) ==
    /\ link = "up"
    /\ Room
    /\ inbox' = Append(inbox, Message(topic))
    /\ UNCHANGED <<theClient, attempts, lastCtor, session, link, connectLog,
                   sleepLeft, last, faulty>>

\* the event context is free to run the next callback
Ready(type) ==
    /\ sleepLeft = 0
    /\ inbox # <<>>
    /\ Head(inbox).type = type

OnConnect ==
    /\ Ready("connack")
    /\ LET done == on_connect(session, Head(inbox).rc)
       IN  /\ session' = done.session
           /\ last' = Ran("connect", Head(inbox).rc, session.connected, done.subs)
    /\ inbox' = Tail(inbox)
    /\ UNCHANGED <<theClient, attempts, lastCtor, link, connectLog, sleepLeft,
                   faulty>>

OnDisconnect ==
    /\ Ready("disconnect")
    /\ LET done == on_disconnect(session)
       IN  /\ session' = done.session
           /\ sleepLeft' = done.sleep
    /\ last' = Ran("disconnect", 0, session.connected, <<>>)
    /\ inbox' = Tail(inbox)
    /\ UNCHANGED <<theClient, attempts, lastCtor, link, connectLog, faulty>>

\* one time unit of on_disconnect's sleep passes
Tick ==
    /\ sleepLeft > 0
    /\ sleepLeft' = sleepLeft - 1
    /\ UNCHANGED <<theClient, attempts, lastCtor, session, link, connectLog,
                   inbox, last, faulty>>

OnMessage ==
    /\ Ready("message")
    /\ \E outcome \in Outcomes(faulty) : \E fault \in Faults(faulty, outcome) :
          last' = [type |-> "message", rc |-> 0, was |-> session.connected,
                   subs |-> <<>>]
                    @@ on_message(session, Head(inbox).topic, outcome, fault)
    /\ inbox' = Tail(inbox)
    /\ UNCHANGED <<theClient, attempts, lastCtor, session, link, connectLog,
                   sleepLeft, faulty>>

Next ==
    \/ \E cfg \in Configs : Construct(cfg)
    \/ \E port \in Ports, reachable \in BOOLEAN : Connect(port, reachable)
    \/ \E rc \in ResultCodes : BrokerAck(rc)
    \/ LinkDrop
    \/ \E topic \in InboundTopics : MessageArrives(topic)
    \/ OnConnect
    \/ OnDisconnect
    \/ Tick
    \/ OnMessage

Spec == Init /\ [][Next]_vars

\* the same program with an environment that may refuse hand-offs
FaultInit == InitWith(TRUE)
FaultSpec == FaultInit /\ [][Next]_vars

-----------------------------------------------------------------------------
(* Claims *)

Dispatched == last.type = "message" /\ last.resolved
Returned   == Dispatched /\ ~last.outcome.raises
Resolved   == last.outcome.value
IsSeq(v)   == IsList(v) \/ IsDict(v)
Cmd(topic, payload) == [topic |-> topic, payload |-> payload,
                        qos |-> session.qos, retain |-> session.retain]

\* C1: a list or a dict resolved for a topic without the wildcard yields
\* exactly one publish, to the error topic, and none to the base topic.
C1_SeveralValuesOnPlainTopic ==
    (Returned /\ IsSeq(Resolved) /\ ~is_multitopic(last.topic)) =>
        /\ ~last.escaped
        /\ Len(last.pubs) = 1
        /\ last.pubs[1].topic = get_error_topic(last.topic)
        /\ \A i \in 1..Len(last.pubs) : last.pubs[i].topic # get_topic(last.topic)

C1_Witness ==
    /\ Returned /\ ~is_multitopic(last.topic)
    /\ Resolved = ListV(<<IntV(10)>>)
    /\ Len(last.pubs) = 1

\* C2: a dict resolved for a wildcard topic yields exactly one publish per
\* key, to the key's subtopic with the serialized value of the key, and
\* nothing else; an empty dict yields no publish.
C2_DictFanOut ==
    (Returned /\ IsDict(Resolved) /\ is_multitopic(last.topic)) =>
        LET ks  == Resolved.keys
            sub(i) == get_subtopic(last.topic, ks[i])
        IN  /\ ~last.escaped
            /\ Len(last.pubs) = Len(ks)
            /\ \A i \in 1..Len(ks) :
                 \E j \in 1..Len(last.pubs) :
                    /\ last.pubs[j] = Cmd(sub(i), payload_as_string(Resolved.items[i]))
                    /\ \A k \in 1..Len(last.pubs) :
                          last.pubs[k].topic = sub(i) => k = j
            /\ { last.pubs[j].topic : j \in 1..Len(last.pubs) }
                  = { sub(i) : i \in 1..Len(ks) }
            /\ \A j \in 1..Len(last.pubs) :
                  last.pubs[j].topic # get_error_topic(last.topic)
            /\ (ks = <<>> => last.pubs = <<>>)
            /\ (last.topic = "psmqtt/disk/*/usage" /\ ks = <<"sda", "sdb">> =>
                  last.pubs = << Cmd("psmqtt/disk/sda/usage", "10"),
                                 Cmd("psmqtt/disk/sdb/usage", "20") >>)

C2_Witness ==
    /\ Returned /\ is_multitopic(last.topic)
    /\ IsDict(Resolved) /\ Resolved.keys = <<"sdb", "sda">>
    /\ Len(last.pubs) = 2

\* C3: a scalar yields exactly one publish, to the base topic (wildcard or
\* not), carrying the serialized value, and no error publish.
C3_ScalarToBaseTopic ==
    (Returned /\ ~IsSeq(Resolved)) =>
        /\ ~last.escaped
        /\ last.pubs = << Cmd(get_topic(last.topic), payload_as_string(Resolved)) >>
        /\ last.pubs[1].topic # get_error_topic(last.topic)
        /\ (last.inbound = "req/cpu/percent" /\ session.request_topic = "req/"
                /\ Resolved = IntV(42) =>
              last.pubs = << Cmd(session.topic_prefix \o "cpu/percent", "42") >>)

C3_Witness ==
    /\ Returned /\ is_multitopic(last.topic)
    /\ Resolved = EnumV("RUN", 2)
    /\ Len(last.pubs) = 1 /\ last.pubs[1].payload = "2"

\* C4: a failing resolver yields exactly one publish, to the error topic,
\* carrying str() of the failure, whether the topic has the wildcard or not.
C4_ResolverFailure ==
    (Dispatched /\ last.outcome.raises) =>
        /\ ~last.escaped
        /\ last.pubs = << Cmd(get_error_topic(last.topic), last.outcome.msg) >>
        /\ last.pubs[1].topic # get_topic(last.topic)

C4_Witness ==
    /\ Dispatched /\ last.outcome.raises
    /\ is_multitopic(last.topic)
    /\ Len(last.pubs) = 1 /\ last.pubs[1].payload = "disk not found"

\* C5: no failure of a step of a dispatch leaves on_message as an
\* exception: the callback returns to the event loop.
C5_NoFaultEscapes == last.type = "message" => ~last.escaped

\* C6: no broker connect is started while the cooldown of on_disconnect is
\* running.
C6_NoConnectInCooldown ==
    [][(sleepLeft > 0 /\ link' = "connecting") => link = "connecting"]_vars

\* C7: after on_disconnect ran on a connected session, the session no
\* longer reports connected.
C7_DisconnectClearsConnected ==
    (last.type = "disconnect" /\ last.was) => ~session.connected

\* C8: every on_connect leaves the session connected, and subscribes once,
\* to request_topic + '#' at the configured qos, exactly when request_topic
\* is not empty.
C8_SubscribeOnConnect ==
    last.type = "connect" =>
        /\ session.connected
        /\ (session.request_topic # "" =>
              last.subs = << [topic |-> session.request_topic \o "#",
                              qos |-> session.qos] >>)
        /\ (session.request_topic = "" => last.subs = <<>>)
        /\ (session.request_topic = "req/" =>
              Len(last.subs) = 1 /\ last.subs[1].topic = "req/#")

C8_Witness ==
    /\ last.type = "connect" /\ last.was
    /\ Len(last.subs) = 1 /\ last.subs[1].qos = 2

\* C9: an on_connect with a result code other than success subscribes to
\* nothing and does not leave the session connected.
C9_RejectedConnect ==
    (last.type = "connect" /\ last.rc # 0) =>
        /\ last.subs = <<>>
        /\ ~session.connected

\* C10: the first construction registers itself; every later one ends in
\* the assertion failure and changes neither the global nor a field of the
\* registered session.
C10_SingleSession ==
    [][attempts' # attempts =>
          IF attempts = 0
          THEN theClient' = 1 /\ lastCtor' = "constructed"
          ELSE /\ theClient = 1 /\ theClient' = theClient
               /\ session' = session
               /\ lastCtor' = "AssertionError"]_vars

C10_Witness ==
    /\ attempts = 2 /\ theClient = 1 /\ lastCtor = "AssertionError"
    /\ session.connected

\* C11: every call of connect returns normally, also when the transport
\* cannot be established: no error reaches the caller.
C11_ConnectReturns == connectLog.port # 0 => ~connectLog.raised

\* the step is on_message running for the message at the head of the queue
OnMessageStep == Ready("message") /\ inbox' = Tail(inbox)

\* C12: qos and retain of the session never change once it is constructed,
\* and every publish of a dispatch, to a data topic or to the error topic,
\* carries them.
C12_UniformQosRetain ==
    [][/\ (theClient # 0 =>
              session'.qos = session.qos /\ session'.retain = session.retain)
       /\ \A i \in 1..Len(last'.pubs) :
              /\ last'.pubs[i].qos = session'.qos
              /\ last'.pubs[i].retain = session'.retain]_vars

C12_Witness ==
    /\ Dispatched /\ last.outcome.raises /\ last.was
    /\ session.qos = 2 /\ session.retain
    /\ Len(last.pubs) = 1
    /\ last.pubs[1].topic = get_error_topic(last.topic)
    /\ last.pubs[1].qos = 2 /\ last.pubs[1].retain

\* C13: a message whose topic does not start with request_topic is
\* ignored: the resolver is not called, nothing is published, no failure is
\* raised and no field of the session changes.
C13_ForeignTopicIgnored ==
    [][(OnMessageStep /\ ~StartsWith(Head(inbox).topic, session.request_topic)) =>
          /\ last'.type = "message" /\ last'.inbound = Head(inbox).topic
          /\ ~last'.matched
          /\ ~last'.resolved
          /\ last'.pubs = <<>>
          /\ ~last'.escaped
          /\ session' = session]_vars

C13_Witness ==
    /\ last.type = "message" /\ last.inbound = "other/cpu/percent"
    /\ session.request_topic = "req/" /\ session.connected
    /\ ~last.matched /\ last.pubs = <<>>

C15_ListFanOut ==
    (Returned /\ IsList(Resolved) /\ is_multitopic(last.topic)) =>
        LET n == Len(Resolved.items)
        IN  /\ ~last.escaped
            /\ Len(last.pubs) = n
            /\ \A i \in 0..(n - 1) :
                  last.pubs[i + 1] = Cmd(get_subtopic(last.topic, IntStr(i)),
                                         payload_as_string(Resolved.items[i + 1]))
            /\ \A j \in 1..Len(last.pubs) :
                  last.pubs[j].topic # get_error_topic(last.topic)
            /\ (n = 0 => last.pubs = <<>>)
            /\ (n = 1 => last.pubs[1].topic # get_topic(last.topic))
            /\ (last.topic = "psmqtt/disk/*/usage"
                    /\ Resolved = ListV(<<IntV(10), ListV(<<ListV(<<BoolV(TRUE)>>)>>)>>) =>
                  last.pubs = << Cmd("psmqtt/disk/0/usage", "10"),
                                 Cmd("psmqtt/disk/1/usage", "True") >>)

C15_Witness ==
    /\ Returned /\ last.topic = "psmqtt/disk/*/usage"
    /\ Resolved = ListV(<<IntV(10)>>)
    /\ Len(last.pubs) = 1 /\ last.pubs[1].topic = "psmqtt/disk/0/usage"

\* C16: for an inbound topic starting with request_topic, the task is the
\* topic without request_topic and then without one leading topic_prefix,
\* and the output topic is topic_prefix + task in every case.
C16_TaskAndOutputTopic ==
    (last.type = "message" /\ last.matched) =>
        LET rest == From(last.inbound, Len(session.request_topic))
        IN  /\ StartsWith(last.inbound, session.request_topic)
            /\ last.task = (IF StartsWith(rest, session.topic_prefix)
                            THEN From(rest, Len(session.topic_prefix)) ELSE rest)
            /\ last.topic = session.topic_prefix \o last.task
            /\ (Dispatched /\ ~last.outcome.raises /\ ~IsSeq(Resolved) =>
                  last.pubs[1].topic = session.topic_prefix \o last.task)
            /\ (last.inbound = "req/psmqtt/psmqtt/cpu/percent"
                    /\ session.request_topic = "req/"
                    /\ session.topic_prefix = "psmqtt/" =>
                  last.task = "psmqtt/cpu/percent"
                    /\ last.topic = "psmqtt/psmqtt/cpu/percent")
            /\ (last.inbound = "req/cpu/percent" /\ session.request_topic = "req/"
                    /\ session.topic_prefix = "" =>
                  last.task = "cpu/percent" /\ last.topic = "cpu/percent")

C16_Witness ==
    /\ Returned /\ last.inbound = "req/psmqtt/psmqtt/cpu/percent"
    /\ session.topic_prefix = "psmqtt/"
    /\ last.task = "psmqtt/cpu/percent"
    /\ Len(last.pubs) = 1 /\ last.pubs[1].topic = "psmqtt/psmqtt/cpu/percent"

\* the value inside all the single-element lists wrapped around it
RECURSIVE Innermost(_)
Innermost(v) ==
    IF IsList(v) /\ Len(v.items) = 1 THEN Innermost(v.items[1]) ELSE v

\* the values a dispatch that returned without a failure has serialized, in
\* the order of their publishes
Serialized == IF IsSeq(Resolved) THEN Resolved.items ELSE <<Resolved>>
Clean      == Returned /\ ~last.escaped /\ (IsSeq(Resolved) => is_multitopic(last.topic))

\* C17: a value wrapped in single-element lists, to whatever depth, is
\* published as the payload of its innermost value: [v] serializes as v.
C17_Flattening ==
    Clean =>
        \A i \in 1..Len(Serialized) :
            LET v == Serialized[i]
            IN  (IsList(v) /\ Len(v.items) = 1) =>
                    /\ last.pubs[i].payload = payload_as_string(v.items[1])
                    /\ last.pubs[i].payload = payload_as_string(Innermost(v))
                    /\ (Innermost(v) = BoolV(TRUE) => last.pubs[i].payload = "True")
                    /\ (Innermost(v) = StrV("ok") => last.pubs[i].payload = "ok")

C17_Witness ==
    /\ Clean /\ IsList(Resolved) /\ Len(last.pubs) = 2
    /\ Resolved.items[2] = ListV(<<ListV(<<BoolV(TRUE)>>)>>)
    /\ last.pubs[2].payload = "True"

\* C18: a handled disconnect starts the cooldown; while it runs no callback
\* runs (nothing is dispatched, published or subscribed, no field changes)
\* and arriving events only queue up; events leave the queue one at a time
\* from its head, each handled whole by its callback.
C18_CooldownBlocksEvents ==
    [][/\ (Ready("disconnect") /\ inbox' = Tail(inbox)) =>
              sleepLeft' = CooldownUnits
       /\ sleepLeft > 0 =>
              /\ last' = last
              /\ session' = session
              /\ Len(inbox') >= Len(inbox)
              /\ SubSeq(inbox', 1, Len(inbox)) = inbox
       /\ (inbox' # inbox /\ Len(inbox') <= Len(inbox)) =>
              /\ sleepLeft = 0
              /\ inbox' = Tail(inbox)
              /\ last'.type = (IF Head(inbox).type = "connack" THEN "connect"
                               ELSE Head(inbox).type)
              /\ (Head(inbox).type = "message" =>
                    last'.inbound = Head(inbox).topic)]_vars

C18_Witness ==
    /\ sleepLeft > 0 /\ last.type = "disconnect"
    /\ Len(inbox) = 2
    /\ inbox[1].type = "connack" /\ inbox[2].type = "message"

\* the rules of payload_as_string in their priority, on the value inside
\* the single-element lists
RefPayloadString(v) ==
    LET w == Innermost(v)
    IN  CASE w.kind = "dict" -> JsonDumps(w)
          [] w.kind = "enum" -> IntStr(w.n)
          [] w.kind = "list" -> JsonDumps(w)
          [] OTHER           -> PyStr(w)

\* values and the payloads they are to be published as
ExpectedPayloads ==
    { <<IntV(42), "42">>, <<BoolV(TRUE), "True">>, <<StrV("ok"), "ok">>,
      <<EnumV("RUN", 2), "2">>,
      <<DictV(<<"k">>, <<ListV(<<IntV(1)>>)>>), "{\"k\": [1]}">>,
      <<ListV(<<>>), "[]">>,
      <<ListV(<<EnumV("RUN", 2), StrV("ok")>>), "[2, \"ok\"]">>,
      <<ListV(<<StrV("ok")>>), "ok">>,
      <<ListV(<<ListV(<<BoolV(TRUE)>>)>>), "True">> }

\* C19: every published payload is what the rules give in their priority:
\* a dict as a JSON object, else an IntEnum as the decimal of its value,
\* else a non-list as str(), else a single-element list as its element,
\* else the list as a JSON array.
C19_PayloadRules ==
    Clean =>
        /\ Len(last.pubs) = Len(Serialized)
        /\ \A i \in 1..Len(Serialized) :
              /\ last.pubs[i].payload = RefPayloadString(Serialized[i])
              /\ \A e \in ExpectedPayloads :
                    Serialized[i] = e[1] => last.pubs[i].payload = e[2]

C19_Witness ==
    /\ Clean
    /\ Resolved = ListV(<<ListV(<<EnumV("RUN", 2), StrV("ok")>>), ListV(<<StrV("ok")>>)>>)
    /\ Len(last.pubs) = 2
    /\ last.pubs[1].payload = "[2, \"ok\"]" /\ last.pubs[2].payload = "ok"

\* the publishes of the whole fan-out of the dispatch, were nothing to fail
FullFanOut ==
    IF last.outcome.raises \/ (IsSeq(Resolved) /\ ~is_multitopic(last.topic))
    THEN <<>>
    ELSE [i \in 1..Len(FanOut(last.topic, Resolved)) |->
            Cmd(FanOut(last.topic, Resolved)[i].topic,
                payload_as_string(FanOut(last.topic, Resolved)[i].v))]

ErrorPubs ==
    { j \in 1..Len(last.pubs) : last.pubs[j].topic = get_error_topic(last.topic) }

\* C20: a dispatch publishes to the error topic at most once, and last; its
\* data publishes are the first ones of the fan-out, in its order, up to the
\* element that failed, and the error publish follows them when the
\* transport accepts it.
C20_ErrorPublishLast ==
    Dispatched =>
        LET nData == Len(last.pubs) - Cardinality(ErrorPubs)
        IN  /\ Cardinality(ErrorPubs) <= 1
            /\ \A j \in ErrorPubs : j = Len(last.pubs)
            /\ nData <= Len(FullFanOut)
            /\ \A i \in 1..nData : last.pubs[i] = FullFanOut[i]
            /\ (nData < Len(FullFanOut) /\ ~last.escaped =>
                  ErrorPubs = { Len(last.pubs) })
            /\ (nData = Len(FullFanOut) /\ FullFanOut # <<>> => ErrorPubs = {})
            /\ (last.escaped => ErrorPubs = {})

C20_Witness ==
    /\ Dispatched /\ Len(FullFanOut) = 2
    /\ Len(last.pubs) = 2
    /\ last.pubs[1].topic = get_subtopic(last.topic, "0")
    /\ last.pubs[2] = Cmd(get_error_topic(last.topic), TypeErrorStr)

====
